---- MODULE Spec2Model ----
(***************************************************************************)
(* NomadCompass: a Streamlit dashboard.  Every user interaction re-runs a  *)
(* page script from top to bottom; the state that survives a rerun is the  *)
(* st.cache_data caches, the CSV files on disk and the remote IMF API.     *)
(*                                                                         *)
(* A DataFrame is modelled by its column set, the set of countries that   *)
(* have rows in it, the version of the file it was read from, whether its *)
(* TIME_PERIOD column holds pandas Periods instead of strings and whether  *)
(* its OBS_VALUE column holds numbers.  A page run is one action; it records what the    *)
(* run did in the variable run (messages shown, steps performed, the       *)
(* exception that ended it).                                               *)
(***************************************************************************)
EXTENDS Integers, Sequences, FiniteSets, TLC

VARIABLES
    files,      \* path -> what is on disk at that path
    http,       \* what the IMF API answers to the next request
    cache,      \* st.cache_data store of util.load_data: path -> result
    popCache,   \* st.cache_data store of population_page.load_population_data
    appCache,   \* st.cache_data store of app.py's own load_data
    reads,      \* path -> number of pd.read_csv calls made by util.load_data
    firstRes,   \* path -> result of the first util.load_data call
    calls,      \* number of operations performed so far
    stab,       \* the table a data-processing step is applied to
    run         \* record of the last operation

vars == <<files, http, cache, popCache, appCache, reads, firstRes, calls, stab, run>>

---------------------------------------------------------------------------
(* Bounds *)

MaxCountry == 3      \* countries occurring in the CSV / API data
MaxCalls == 4        \* operations per behaviour of SpecLoad
MaxVersion == 2      \* distinct contents a CSV file takes over time
MaxSelected == 3     \* features the user selects on the clustering page
NumStab == 11        \* countries of the CPI table of the stability section
NumTop == 12         \* countries of the CPI table of the sidebar page
MaxQuarter == 6      \* quarters a CPI series spans
NumGroups == 2       \* groups (countries, or country and category) of a CPI table
MaxCpiRows == 2      \* rows of the CPI table given to the population merge
MaxPopRows == 2      \* rows of the population table given to the population merge
MatRows == 3         \* countries of the combined feature matrix
MatFeatures == 2     \* numeric features of the combined feature matrix
MaxRaw == 2          \* rows of each cleaned table given to feature engineering
MaxFinal == 4        \* countries left after the missing-value step
NumPie == 3          \* countries of the population table of the pie chart

Countries == 1..MaxCountry

\* the countries the pages preselect in their widgets
Aruba == 1
UnitedStates == 2

\* the country sets a table is drawn with
CountrySets == {Countries, Countries \ {Aruba}, {Aruba}}

---------------------------------------------------------------------------
(* DataFrames *)

NoEntry == [none |-> TRUE]

\* pd.DataFrame()
EmptyDF == [cols |-> {}, countries |-> {}, version |-> 0, period |-> FALSE, numeric |-> TRUE]

\* DataFrame.empty: some axis has length 0
IsEmpty(df) == df.cols = {} \/ df.countries = {}

PopCsv == "data/world_population_data.csv"
NhaCsv == "data/NHA_indicators_PPP.csv"
AggCsv == "data/imf_cpi_all_countries_quarterly_data.csv"
GranCsv == "data/imf_cpi_selected_categories_quarterly_data.csv"

UtilPaths == {PopCsv, NhaCsv}
AppPaths == {AggCsv, GranCsv, NhaCsv, PopCsv}

\* columns of the shipped CSV files ("Area (km2)" stands for "Area (km²)")
PopCols == {"Country/Territory", "CCA3", "Year", "Population", "Area (km2)", "Density (per km2)"}
NhaCols == {"Countries", "Indicators", "Year", "Value", "Value_PPP"}
CpiCsvCols == {"COUNTRY", "COICOP_1999", "TIME_PERIOD", "OBS_VALUE"}

FullCols(p) ==
    IF p = PopCsv THEN PopCols
    ELSE IF p = NhaCsv THEN NhaCols
    ELSE CpiCsvCols

\* what a path can hold: no file, a file pd.read_csv cannot parse, or a table
Missing == [status |-> "missing", df |-> EmptyDF]
Malformed == [status |-> "malformed", df |-> EmptyDF]
OkFile(cols, cs, v) ==
    [status |-> "ok",
     df |-> [cols |-> cols, countries |-> cs, version |-> v, period |-> FALSE, numeric |-> TRUE]]

---------------------------------------------------------------------------
(* app/util/util.py *)

Result(df, msgs, raised) == [df |-> df, msgs |-> msgs, raised |-> raised]

FileNotFoundMsg == "error: The file was not found"
LoadErrorMsg == "error: An error occurred loading"

load_data_nocatch(f) ==
    IF f.status = "ok" THEN Result(f.df, <<>>, "none")
    ELSE IF f.status = "missing" THEN Result(EmptyDF, <<FileNotFoundMsg>>, "none")
    ELSE Result(EmptyDF, <<>>, "ParserError")

\* load_data's body: read the CSV, turn every failure into st.error + empty frame
load_data(f) ==
    IF f.status = "ok" THEN Result(f.df, <<>>, "none")
    ELSE IF f.status = "missing" THEN Result(EmptyDF, <<FileNotFoundMsg>>, "none")
    ELSE Result(EmptyDF, <<LoadErrorMsg>>, "none")

cache_lookup_never(c, key) == NoEntry

\* @st.cache_data: the stored return value for these arguments, if any
cache_lookup(c, key) == c[key]

\* one call of the cached util.load_data(path) with cache c and read counters r
cached_load_data(c, r, p) ==
    LET hit == cache_lookup(c, p) IN
    IF hit # NoEntry
    THEN [res |-> hit, cache |-> c, reads |-> r, fresh |-> FALSE]
    ELSE LET res == load_data(files[p]) IN
         [res |-> res,
          cache |-> IF res.raised = "none" THEN [c EXCEPT ![p] = res] ELSE c,
          reads |-> [r EXCEPT ![p] = @ + 1],
          fresh |-> TRUE]

---------------------------------------------------------------------------
(* Values the variables take when a specification does not use them *)

NoResponse == [status |-> "conn_error"]
NoRun == [op |-> "none"]
NoStab == <<>>

EmptyCache == [p \in AppPaths |-> NoEntry]
NoReads == [p \in AppPaths |-> 0]

\* the contents a CSV file takes while the cache specification runs
LoadFileStates(p) ==
    {Missing, Malformed} \cup {OkFile(FullCols(p), Countries, v) : v \in 1..MaxVersion}

---------------------------------------------------------------------------
(* SpecLoad: reruns calling the cached loaders while the files change *)

InitLoad ==
    /\ \E fp \in LoadFileStates(PopCsv), fn \in LoadFileStates(NhaCsv) :
        files = [p \in AppPaths |-> IF p = PopCsv THEN fp ELSE IF p = NhaCsv THEN fn ELSE Missing]
    /\ http = NoResponse
    /\ cache = EmptyCache
    /\ popCache = NoEntry
    /\ appCache = EmptyCache
    /\ reads = NoReads
    /\ firstRes = EmptyCache
    /\ calls = 0
    /\ stab = NoStab
    /\ run = NoRun

\* a page calls util.load_data(p)
LoadDataCall(p) ==
    /\ calls < MaxCalls
    /\ LET r == cached_load_data(cache, reads, p) IN
        /\ cache' = r.cache
        /\ reads' = r.reads
        /\ firstRes' = [firstRes EXCEPT ![p] = IF @ = NoEntry THEN r.res ELSE @]
        /\ run' = [op |-> "load_data", path |-> p, file |-> files[p], fresh |-> r.fresh,
                   df |-> r.res.df, msgs |-> r.res.msgs, raised |-> r.res.raised]
    /\ calls' = calls + 1
    /\ UNCHANGED <<files, http, popCache, appCache, stab>>

\* population_page.load_population_data(): a cached call of util.load_data
LoadPopulationData ==
    /\ calls < MaxCalls
    /\ IF popCache # NoEntry
       THEN /\ run' = [op |-> "load_population_data", path |-> PopCsv, file |-> files[PopCsv],
                       fresh |-> FALSE, df |-> popCache.df, msgs |-> popCache.msgs,
                       raised |-> popCache.raised]
            /\ UNCHANGED <<cache, reads, firstRes, popCache>>
       ELSE LET r == cached_load_data(cache, reads, PopCsv) IN
            /\ cache' = r.cache
            /\ reads' = r.reads
            /\ firstRes' = [firstRes EXCEPT ![PopCsv] = IF @ = NoEntry THEN r.res ELSE @]
            /\ popCache' = IF r.res.raised = "none" THEN r.res ELSE popCache
            /\ run' = [op |-> "load_population_data", path |-> PopCsv, file |-> files[PopCsv],
                       fresh |-> r.fresh, df |-> r.res.df, msgs |-> r.res.msgs,
                       raised |-> r.res.raised]
    /\ calls' = calls + 1
    /\ UNCHANGED <<files, http, appCache, stab>>

\* the environment replaces, removes or corrupts a CSV file between reruns
FileChange(p) ==
    /\ \E f \in LoadFileStates(p) :
        /\ f # files[p]
        /\ files' = [files EXCEPT ![p] = f]
    /\ UNCHANGED <<http, cache, popCache, appCache, reads, firstRes, calls, stab, run>>

NextLoad ==
    \/ \E p \in UtilPaths : LoadDataCall(p)
    \/ LoadPopulationData
    \/ \E p \in UtilPaths : FileChange(p)

SpecLoad == InitLoad /\ [][NextLoad]_vars

\* C1: util.load_data never raises; a failed read gives an empty DataFrame and
\* exactly one error message, a successful read gives the file's rows and no
\* error message.
LoadDataNeverRaises ==
    (run.op = "load_data" /\ run.fresh) =>
        /\ run.raised = "none"
        /\ run.file.status # "ok" => (run.df = EmptyDF /\ Len(run.msgs) = 1)
        /\ run.file.status = "ok" => (run.df = run.file.df /\ run.msgs = <<>>)

LoadDataFailedReadWitness ==
    /\ run.op = "load_data" /\ run.fresh
    /\ run.file.status = "malformed"
    /\ run.df = EmptyDF /\ run.msgs = <<LoadErrorMsg>>

\* C7: util.load_data reads a path from disk at most once, and every later
\* call with that path returns the result of the first call.
LoadDataReadsOnce ==
    /\ \A p \in UtilPaths : reads[p] <= 1
    /\ run.op = "load_data" =>
        /\ run.df = firstRes[run.path].df
        /\ run.msgs = firstRes[run.path].msgs
        /\ run.fresh => reads[run.path] = 1

LoadDataCachedWitness ==
    /\ run.op = "load_data" /\ ~run.fresh
    /\ run.df = EmptyDF
    /\ files[run.path].status = "ok"
    /\ reads[run.path] = 1

---------------------------------------------------------------------------
(* The IMF SDMX endpoint, as requests.get and xmltodict.parse see it *)

ApiAttrs == {"COUNTRY", "COICOP_1999", "INDEX_TYPE", "TYPE_OF_TRANSFORMATION", "FREQUENCY",
             "TIME_PERIOD", "OBS_VALUE"}

\* attribute sets of the Series/Obs elements of a response
AttrChoices == {ApiAttrs} \cup {ApiAttrs \ {a} : a \in {"OBS_VALUE", "COUNTRY", "COICOP_1999", "TIME_PERIOD"}}

Resp(status, utf8, wellformed, structure, obs, attrs, uniform, cs, numeric) ==
    [status |-> status, utf8 |-> utf8, wellformed |-> wellformed, structure |-> structure,
     obs |-> obs, attrs |-> attrs, uniform |-> uniform, countries |-> cs, numeric |-> numeric]

FailStatuses == {"conn_error", "timeout", "http_error", "request_error"}

\* status: the request's outcome; utf8: the body decodes as UTF-8; wellformed:
\* the body parses as XML; structure: it has StructureSpecificData/DataSet/Series;
\* obs: the Obs elements carry attributes ("attrs"), carry none ("text", parsed
\* to a str or None) or do not exist ("none"); uniform: the fixed dimensions
\* have one unique value; countries: the countries with observations;
\* numeric: the OBS_VALUE attributes are numbers.
FailedResponses(utf8s) ==
    {Resp(s, TRUE, FALSE, FALSE, "none", {}, TRUE, {}, TRUE) : s \in FailStatuses}
    \cup {Resp("ok", u, FALSE, FALSE, "none", {}, TRUE, {}, TRUE) : u \in utf8s}
    \cup {Resp("ok", u, TRUE, FALSE, "none", {}, TRUE, {}, TRUE) : u \in utf8s}
    \cup {Resp("ok", u, TRUE, TRUE, o, {}, TRUE, {}, TRUE) : u \in utf8s, o \in {"none", "text"}}

Responses ==
    FailedResponses(BOOLEAN)
    \cup {Resp("ok", u, TRUE, TRUE, "attrs", a, n, cs, m) :
            u \in BOOLEAN, a \in AttrChoices, n \in BOOLEAN, cs \in CountrySets, m \in BOOLEAN}

\* the failed outcomes: request error, HTTP error status, unparseable XML, XML
\* without the Series structure, zero observations
FetchFailed(r) == r.status # "ok" \/ ~r.wellformed \/ ~r.structure \/ r.obs = "none"

FixedDims == {"INDEX_TYPE", "TYPE_OF_TRANSFORMATION", "FREQUENCY"}

---------------------------------------------------------------------------
(* data/etl/cpi_api_download.py *)

\* the `except Exception` handler: xml_data.decode('utf-8') of the body
cpi_api_except(r) ==
    IF r.utf8 THEN Result(EmptyDF, <<>>, "none")
    ELSE Result(EmptyDF, <<>>, "UnicodeDecodeError")

cpi_api_data(r) ==
    IF r.status # "ok" THEN Result(EmptyDF, <<>>, "none")
    ELSE IF ~r.wellformed THEN cpi_api_except(r)
    ELSE IF ~r.structure THEN Result(EmptyDF, <<>>, "none")
    ELSE IF r.obs = "text" THEN cpi_api_except(r)
    ELSE IF r.obs = "none" THEN Result(EmptyDF, <<>>, "none")
    ELSE Result([cols |-> IF r.uniform THEN r.attrs \ FixedDims ELSE r.attrs,
                 countries |-> r.countries, version |-> 0, period |-> FALSE,
                 numeric |-> r.numeric],
                <<>>, "none")

---------------------------------------------------------------------------
(* data/etl/imf_granular_cpi_etl.py *)

granular_cpi_data(r) ==
    IF r.status # "ok" THEN Result(EmptyDF, <<>>, "none")
    ELSE IF ~r.wellformed THEN Result(EmptyDF, <<>>, "none")
    ELSE IF ~r.structure THEN Result(EmptyDF, <<>>, "none")
    ELSE IF r.obs = "text" THEN Result(EmptyDF, <<>>, "none")
    ELSE IF r.obs = "none" THEN Result(EmptyDF, <<>>, "none")
    ELSE IF "OBS_VALUE" \notin r.attrs THEN Result(EmptyDF, <<>>, "none")
    ELSE IF "TIME_PERIOD" \notin r.attrs THEN Result(EmptyDF, <<>>, "none")
    ELSE LET kept == r.attrs \ FixedDims IN
         Result([cols |-> IF "COICOP_1999" \in kept
                          THEN (kept \ {"COICOP_1999"}) \cup {"Category"}
                          ELSE kept,
                 countries |-> IF r.numeric THEN r.countries ELSE {},
                 version |-> 0, period |-> TRUE, numeric |-> TRUE],
                <<>>, "none")

---------------------------------------------------------------------------
(* SpecFetch: the two fetch functions against every answer of the endpoint *)

NoFiles == [p \in AppPaths |-> Missing]

InitFetch ==
    /\ http \in Responses
    /\ files = NoFiles
    /\ cache = EmptyCache
    /\ popCache = NoEntry
    /\ appCache = EmptyCache
    /\ reads = NoReads
    /\ firstRes = EmptyCache
    /\ calls = 0
    /\ stab = NoStab
    /\ run = NoRun

CallCpiApiData ==
    /\ LET r == cpi_api_data(http) IN
        run' = [op |-> "cpi_api_data", resp |-> http, df |-> r.df, raised |-> r.raised]
    /\ UNCHANGED <<files, http, cache, popCache, appCache, reads, firstRes, calls, stab>>

CallGranularCpiData ==
    /\ LET r == granular_cpi_data(http) IN
        run' = [op |-> "granular_cpi_data", resp |-> http, df |-> r.df, raised |-> r.raised]
    /\ UNCHANGED <<files, http, cache, popCache, appCache, reads, firstRes, calls, stab>>

NextFetch ==
    \/ CallCpiApiData
    \/ CallGranularCpiData

SpecFetch == InitFetch /\ [][NextFetch]_vars

\* C2: cpi_api_data and granular_cpi_data never propagate an exception: after
\* every failed outcome of the request they return an empty DataFrame.
FetchNeverPropagates ==
    (run.op \in {"cpi_api_data", "granular_cpi_data"} /\ FetchFailed(run.resp)) =>
        (run.raised = "none" /\ run.df = EmptyDF)

---------------------------------------------------------------------------
(* What one run of a page leaves behind *)

\* msgs: the st.error/st.warning/st.info/st.success boxes, in order; steps: the
\* stages performed, in order, as <<name, k>>; raised: the exception that ended
\* the run; c, r: the load_data cache and read counters after the run
Out(msgs, steps, raised, c, r) ==
    [msgs |-> msgs, steps |-> steps, raised |-> raised, cache |-> c, reads |-> r]

Step(name) == <<name, 0>>

Shown(msgs) == {msgs[i] : i \in DOMAIN msgs}

Count(msgs, m) == Cardinality({i \in DOMAIN msgs : msgs[i] = m})

---------------------------------------------------------------------------
(* app/sidebar_pages/aggregate_cpi_page.py *)

AggNotLoadedMsg == "warning: Aggregate CPI data not loaded."
PeriodErrorMsg == "error: Error converting CPI TIME_PERIOD to a PeriodIndex"
PopNoCountryColMsg == "warning: Population data is missing 'Country/Territory' column."
PopBadFormatMsg == "warning: Population data is not in the expected format or is empty."

\* lines 71-98: the population table prepared for the merge, and its warnings
agg_population_msgs(pop) ==
    (IF "Country/Territory" \in pop.cols THEN <<>> ELSE <<PopNoCountryColMsg>>)
    \o (IF /\ "Country/Territory" \in pop.cols
           /\ ~IsEmpty(pop)
           /\ "Year" \in pop.cols
           /\ "Population" \in pop.cols
        THEN <<>> ELSE <<PopBadFormatMsg>>)

aggregate_cpi_page(resp, c, r) ==
    LET f == cpi_api_data(resp) IN
    IF f.raised # "none" THEN Out(<<>>, <<>>, f.raised, c, r)
    ELSE IF "OBS_VALUE" \notin f.df.cols THEN Out(<<>>, <<>>, "KeyError", c, r)
    ELSE IF "COUNTRY" \notin f.df.cols THEN Out(<<>>, <<>>, "KeyError", c, r)
    ELSE
    LET l == cached_load_data(c, r, PopCsv)
        rows == IF f.df.numeric THEN f.df.countries ELSE {}
    IN
    IF rows = {} THEN Out(l.res.msgs \o <<AggNotLoadedMsg>>, <<>>, "none", l.cache, l.reads)
    ELSE IF "TIME_PERIOD" \notin f.df.cols
    THEN Out(l.res.msgs \o <<PeriodErrorMsg>>, <<>>, "KeyError", l.cache, l.reads)
    ELSE IF Aruba \notin rows
    THEN Out(l.res.msgs, <<>>, "StreamlitAPIException", l.cache, l.reads)
    ELSE Out(l.res.msgs \o agg_population_msgs(l.res.df),
             <<Step("chart_cpi_over_time"), Step("stability"), Step("explore_country")>>,
             "none", l.cache, l.reads)

---------------------------------------------------------------------------
(* app/sidebar_pages/nha_indicators_page.py *)

NhaNotLoadedMsg == "warning: NHA Indicators data is not available or failed to load."
NoMapDataMsg == "info: No data available to create the map."

NhaSections == <<Step("line_chart"), Step("scatter_plot"), Step("bar_chart"), Step("stacked_bar")>>

\* lines 254-336: the choropleth section, given the loaded population table
nha_map_section(nha, pop) ==
    IF ~({"Country/Territory", "CCA3"} \subseteq pop.cols)
    THEN [msgs |-> <<>>, steps |-> <<>>, raised |-> "KeyError"]
    ELSE IF nha.countries \cap pop.countries = {}
    THEN [msgs |-> <<NoMapDataMsg>>, steps |-> <<>>, raised |-> "none"]
    ELSE [msgs |-> <<>>, steps |-> <<Step("choropleth")>>, raised |-> "none"]

nha_indicators_page(c, r) ==
    LET l == cached_load_data(c, r, NhaCsv)
        nha == l.res.df
    IN
    IF IsEmpty(nha) THEN Out(l.res.msgs \o <<NhaNotLoadedMsg>>, <<>>, "none", l.cache, l.reads)
    ELSE IF ~({"Value", "Indicators", "Year", "Countries"} \subseteq nha.cols)
    THEN Out(l.res.msgs, <<>>, "KeyError", l.cache, l.reads)
    ELSE
    LET lp == cached_load_data(l.cache, l.reads, PopCsv)
        m == nha_map_section(nha, lp.res.df)
    IN Out(l.res.msgs \o lp.res.msgs \o m.msgs, NhaSections \o m.steps, m.raised,
           lp.cache, lp.reads)

---------------------------------------------------------------------------
(* app/sidebar_pages/clustering_page.py *)

ErrorLoadingMsg == "error: Error loading datasets"
LoadedMsg == "success: All raw dataframes loaded and initially cleaned."
TooFewCountriesMsg == "warning: Not enough countries with complete data to perform clustering."
SelectFeatureMsg == "warning: Please select at least one feature to perform clustering."
TooFewForKMeansMsg == "warning: Not enough distinct countries or features selected"
NoPcaMsg == "info: Not enough features selected for PCA"

CpiFeatures == 3     \* Avg_CPI, Std_CPI, Avg_YoY_CPI of a category
NhaFeatures == 1     \* Avg_NHA_PPP of an indicator
PopFeatures == 2     \* Avg_Population, Avg_Density
MaxKCap == 15
MinK == 2

AvailableFeatures == CpiFeatures + NhaFeatures + PopFeatures

Min2(a, b) == IF a <= b THEN a ELSE b

\* the columns the loading block reads, per dataset (lines 41-61)
CpiLoadCols == {"OBS_VALUE", "COUNTRY"}
PopLoadCols == {"Population", "Area (km2)", "Density (per km2)"}
NhaLoadCols == {"Value", "Value_PPP", "Countries"}

\* the loading block with the NHA table left unchecked
clustering_load_unchecked_nha(resp, c, r) ==
    LET f == granular_cpi_data(resp) IN
    IF ~(CpiLoadCols \subseteq f.df.cols)
    THEN [ok |-> FALSE, msgs |-> <<ErrorLoadingMsg>>, cache |-> c, reads |-> r,
          cpi |-> f.df, pop |-> EmptyDF, nha |-> EmptyDF]
    ELSE
    LET lp == cached_load_data(c, r, PopCsv) IN
    IF ~(PopLoadCols \subseteq lp.res.df.cols)
    THEN [ok |-> FALSE, msgs |-> lp.res.msgs \o <<ErrorLoadingMsg>>,
          cache |-> lp.cache, reads |-> lp.reads,
          cpi |-> f.df, pop |-> lp.res.df, nha |-> EmptyDF]
    ELSE
    LET ln == cached_load_data(lp.cache, lp.reads, NhaCsv) IN
    [ok |-> TRUE, msgs |-> lp.res.msgs \o ln.res.msgs \o <<LoadedMsg>>,
     cache |-> ln.cache, reads |-> ln.reads,
     cpi |-> f.df, pop |-> lp.res.df, nha |-> ln.res.df]

\* lines 36-68: the three loads and their cleaning inside try/except.
\* ok: no exception was caught; cpi, pop, nha: the cleaned tables
clustering_load(resp, c, r) ==
    LET f == granular_cpi_data(resp) IN
    IF ~(CpiLoadCols \subseteq f.df.cols)
    THEN [ok |-> FALSE, msgs |-> <<ErrorLoadingMsg>>, cache |-> c, reads |-> r,
          cpi |-> f.df, pop |-> EmptyDF, nha |-> EmptyDF]
    ELSE
    LET lp == cached_load_data(c, r, PopCsv) IN
    IF ~(PopLoadCols \subseteq lp.res.df.cols)
    THEN [ok |-> FALSE, msgs |-> lp.res.msgs \o <<ErrorLoadingMsg>>,
          cache |-> lp.cache, reads |-> lp.reads,
          cpi |-> f.df, pop |-> lp.res.df, nha |-> EmptyDF]
    ELSE
    LET ln == cached_load_data(lp.cache, lp.reads, NhaCsv) IN
    IF ~(NhaLoadCols \subseteq ln.res.df.cols)
    THEN [ok |-> FALSE, msgs |-> lp.res.msgs \o ln.res.msgs \o <<ErrorLoadingMsg>>,
          cache |-> ln.cache, reads |-> ln.reads,
          cpi |-> f.df, pop |-> lp.res.df, nha |-> ln.res.df]
    ELSE [ok |-> TRUE, msgs |-> lp.res.msgs \o ln.res.msgs \o <<LoadedMsg>>,
          cache |-> ln.cache, reads |-> ln.reads,
          cpi |-> f.df, pop |-> lp.res.df, nha |-> ln.res.df]

\* lines 79-116: the exception feature engineering ends with, or "none"
feature_engineering(cpi, pop, nha) ==
    IF "COICOP_1999" \notin cpi.cols THEN "KeyError"
    ELSE IF "TIME_PERIOD" \notin cpi.cols THEN "KeyError"
    ELSE IF cpi.period THEN "AttributeError"
    ELSE IF "Indicators" \notin nha.cols THEN "KeyError"
    ELSE IF "Country/Territory" \notin pop.cols THEN "KeyError"
    ELSE "none"

\* lines 126-151: the countries left after the outer merges and the
\* missing-value step.  filled: combined_features[col].fillna(..., inplace=True)
\* reaches the frame (it does not under pandas copy-on-write)
final_countries(cpi, pop, nha, filled) ==
    IF filled
    THEN Cardinality(cpi.countries \cup nha.countries \cup pop.countries)
    ELSE Cardinality(cpi.countries \cap nha.countries \cap pop.countries)

\* line 238
max_k_val(final, nsel) == Min2(MaxKCap, Min2(final - 1, nsel))

\* lines 251-264: one K-Means fit per K of the diagnostic range
diagnostic_fits(maxk) == [i \in 1..(maxk - MinK + 1) |-> <<"kmeans_fit", i + MinK - 1>>]

\* lines 155-398, once the features are engineered; nsel: number of selected
\* features, maxk and kfinal: the slider positions the user asks for
clustering_pipeline(final, nsel, maxk, kfinal) ==
    IF final < 2
    THEN [msgs |-> <<TooFewCountriesMsg>>, steps |-> <<>>]
    ELSE IF nsel = 0
    THEN [msgs |-> <<SelectFeatureMsg>>, steps |-> <<>>]
    ELSE IF max_k_val(final, nsel) < 2
    THEN [msgs |-> <<TooFewForKMeansMsg>>, steps |-> <<Step("scale")>>]
    ELSE
    LET kmax == Min2(maxk, max_k_val(final, nsel))
        kfin == Min2(kfinal, max_k_val(final, nsel))
    IN [msgs |-> IF nsel > 2 THEN <<>> ELSE <<NoPcaMsg>>,
        steps |-> <<Step("scale")>> \o diagnostic_fits(kmax)
                  \o <<<<"kmeans_final", kfin>>, Step("label")>>
                  \o (IF nsel > 2 THEN <<Step("pca")>> ELSE <<>>)
                  \o <<Step("cluster_summary")>>]

clustering_page(resp, c, r, filled, nsel, maxk, kfinal) ==
    LET l == clustering_load(resp, c, r) IN
    IF ~l.ok THEN Out(l.msgs, <<>>, "none", l.cache, l.reads)
    ELSE
    LET e == feature_engineering(l.cpi, l.pop, l.nha) IN
    IF e # "none" THEN Out(l.msgs, <<>>, e, l.cache, l.reads)
    ELSE
    LET p == clustering_pipeline(final_countries(l.cpi, l.pop, l.nha, filled), nsel, maxk, kfinal)
    IN Out(l.msgs \o p.msgs,
           <<Step("feature_engineering"), Step("merge"), Step("missing_values")>> \o p.steps,
           "none", l.cache, l.reads)

---------------------------------------------------------------------------
(* SpecPages: reruns of the sidebar pages against every state of the files *)
(* and every answer of the endpoint                                        *)

PageResponses ==
    FailedResponses(BOOLEAN)
    \cup {Resp("ok", TRUE, TRUE, TRUE, "attrs", ApiAttrs, TRUE, cs, m) :
            cs \in CountrySets, m \in BOOLEAN}
    \cup {Resp("ok", TRUE, TRUE, TRUE, "attrs", a, TRUE, Countries, TRUE) : a \in AttrChoices}

PageFileStates(p) ==
    {Missing, Malformed}
    \cup {OkFile(FullCols(p), cs, 1) : cs \in CountrySets}
    \cup {OkFile(FullCols(p) \ {col}, Countries, 1) :
            col \in {"Country/Territory", "Population", "CCA3", "Value_PPP", "Indicators"} \cap FullCols(p)}

InitPages ==
    /\ http \in PageResponses
    /\ \E fp \in PageFileStates(PopCsv), fn \in PageFileStates(NhaCsv) :
        files = [p \in AppPaths |-> IF p = PopCsv THEN fp ELSE IF p = NhaCsv THEN fn ELSE Missing]
    /\ cache = EmptyCache
    /\ popCache = NoEntry
    /\ appCache = EmptyCache
    /\ reads = NoReads
    /\ firstRes = EmptyCache
    /\ calls = 0
    /\ stab = NoStab
    /\ run = NoRun

RunAggregateCpiPage ==
    /\ LET o == aggregate_cpi_page(http, cache, reads) IN
        /\ cache' = o.cache
        /\ reads' = o.reads
        /\ run' = [op |-> "aggregate_cpi_page", resp |-> http, fetched |-> cpi_api_data(http),
                   msgs |-> o.msgs, steps |-> o.steps, raised |-> o.raised]
    /\ UNCHANGED <<files, http, popCache, appCache, firstRes, calls, stab>>

RunNhaIndicatorsPage ==
    /\ LET o == nha_indicators_page(cache, reads) IN
        /\ cache' = o.cache
        /\ reads' = o.reads
        /\ run' = [op |-> "nha_indicators_page", resp |-> http,
                   msgs |-> o.msgs, steps |-> o.steps, raised |-> o.raised]
    /\ UNCHANGED <<files, http, popCache, appCache, firstRes, calls, stab>>

\* the user's widget state: number of selected features and the two K sliders
RunClusteringPage ==
    /\ \E filled \in BOOLEAN, nsel \in 0..Min2(MaxSelected, AvailableFeatures),
          maxk \in MinK..(MaxCountry - 1), kfinal \in MinK..(MaxCountry - 1) :
        LET o == clustering_page(http, cache, reads, filled, nsel, maxk, kfinal) IN
        /\ cache' = o.cache
        /\ reads' = o.reads
        /\ run' = [op |-> "clustering_page", resp |-> http,
                   msgs |-> o.msgs, steps |-> o.steps, raised |-> o.raised,
                   nsel |-> nsel, maxk |-> maxk, kfinal |-> kfinal]
    /\ UNCHANGED <<files, http, popCache, appCache, firstRes, calls, stab>>

NextPages ==
    \/ RunAggregateCpiPage
    \/ RunNhaIndicatorsPage
    \/ RunClusteringPage

SpecPages == InitPages /\ [][NextPages]_vars

Readable(p) == files[p].status = "ok"

\* C3: when cpi_api_data returns an empty DataFrame, aggregate_cpi_page shows
\* 'Aggregate CPI data not loaded.', renders no chart and raises no exception.
AggregatePageWarnsOnFailedFetch ==
    (/\ run.op = "aggregate_cpi_page"
     /\ run.fetched.raised = "none"
     /\ run.fetched.df = EmptyDF) =>
        /\ run.raised = "none"
        /\ AggNotLoadedMsg \in Shown(run.msgs)
        /\ run.steps = <<>>

\* the steps C4 names, in the order a complete run performs them
PipelineSteps(maxk, kfinal) ==
    <<Step("feature_engineering"), Step("scale")>> \o diagnostic_fits(maxk)
    \o <<<<"kmeans_final", kfinal>>, Step("label"), Step("pca")>>

PipelineNames == {"feature_engineering", "scale", "kmeans_fit", "kmeans_final", "label", "pca"}

\* the tables the clustering page works on all loaded, with every column of
\* the shipped files and of the endpoint's answer
ClusteringDataValid ==
    /\ run.resp.status = "ok" /\ run.resp.obs = "attrs" /\ run.resp.numeric
    /\ run.resp.attrs = ApiAttrs
    /\ Readable(PopCsv) /\ files[PopCsv].df.cols = PopCols
    /\ Readable(NhaCsv) /\ files[NhaCsv].df.cols = NhaCols

\* C4: with the three datasets loaded, at least 3 countries with complete data
\* and at least 3 selected features, a run of clustering_page performs feature
\* engineering, scaling, one K-Means fit per diagnostic K, the final fit, the
\* labelling and the PCA projection, in this order, and raises no exception.
ClusteringPipelineRuns ==
    (/\ run.op = "clustering_page"
     /\ ClusteringDataValid
     /\ Cardinality(run.resp.countries \cap files[PopCsv].df.countries
                    \cap files[NhaCsv].df.countries) >= 3
     /\ run.nsel >= 3) =>
        /\ run.raised = "none"
        /\ SelectSeq(run.steps, LAMBDA st : st[1] \in PipelineNames)
             = PipelineSteps(run.maxk, run.kfinal)

\* the columns clustering_page reads from the two CSV tables
PopExpectedCols == PopLoadCols \cup {"Country/Territory"}
NhaExpectedCols == NhaLoadCols \cup {"Indicators"}

\* the loading block of clustering_page cannot complete
LoadBlockFails ==
    \/ ~(CpiLoadCols \subseteq granular_cpi_data(run.resp).df.cols)
    \/ ~Readable(PopCsv) \/ ~(PopLoadCols \subseteq files[PopCsv].df.cols)
    \/ ~Readable(NhaCsv) \/ ~(NhaLoadCols \subseteq files[NhaCsv].df.cols)

StoppedAtLoad ==
    /\ run.raised = "none"
    /\ Count(run.msgs, ErrorLoadingMsg) = 1
    /\ run.steps = <<>>

\* C5 as stated: a failed fetch, an unreadable CSV or any missing expected
\* column makes clustering_page show one 'Error loading datasets' message and
\* return before feature engineering, scaling or K-Means.
ClusteringStopsOnAnyMissingColumn ==
    (/\ run.op = "clustering_page"
     /\ \/ LoadBlockFails
        \/ ~(PopExpectedCols \subseteq files[PopCsv].df.cols)
        \/ ~(NhaExpectedCols \subseteq files[NhaCsv].df.cols)) => StoppedAtLoad

\* C5 (amended): a failed fetch, an unreadable CSV or a missing column among
\* those the loading block reads (OBS_VALUE, COUNTRY, Population, Area,
\* Density, Value, Value_PPP, Countries) makes clustering_page show one
\* 'Error loading datasets' message and return before feature engineering,
\* scaling or K-Means.
ClusteringStopsOnLoadFailure ==
    (run.op = "clustering_page" /\ LoadBlockFails) => StoppedAtLoad

ClusteringLoadFailureWitness ==
    /\ run.op = "clustering_page"
    /\ CpiLoadCols \subseteq granular_cpi_data(run.resp).df.cols
    /\ Readable(PopCsv) /\ files[PopCsv].df.cols = PopCols
    /\ files[NhaCsv].status = "missing"
    /\ StoppedAtLoad

\* C9: with the NHA data loaded and the population CSV unreadable, the
\* choropleth section shows 'No data available to create the map...', the
\* page raises no exception and the four charts before it are rendered.
NhaPageSurvivesMissingPopulation ==
    (/\ run.op = "nha_indicators_page"
     /\ Readable(NhaCsv) /\ files[NhaCsv].df.cols = NhaCols
     /\ ~Readable(PopCsv)) =>
        /\ run.raised = "none"
        /\ NoMapDataMsg \in Shown(run.msgs)
        /\ SubSeq(run.steps, 1, 4) = NhaSections

---------------------------------------------------------------------------
(* app/app.py: the single-script version of the dashboard *)

GranNotLoadedMsg == "warning: Granular CPI data not loaded."
NhaHomeNotLoadedMsg == "warning: NHA Indicators data not loaded."

AppPages == {"Home", "Aggregate CPI", "Categorical CPI", "NHA Indicators"}
Describes == {"Aggregate CPI", "Categorical CPI", "NHA Indicators"}

\* lines 9-18: app.py's own copy of load_data
app_load_data(f) ==
    IF f.status = "ok" THEN Result(f.df, <<>>, "none")
    ELSE IF f.status = "missing" THEN Result(EmptyDF, <<FileNotFoundMsg>>, "none")
    ELSE Result(EmptyDF, <<LoadErrorMsg>>, "none")

\* one call of the cached app.py load_data(path) with cache c
app_cached_load_data(c, p) ==
    LET hit == cache_lookup(c, p) IN
    IF hit # NoEntry THEN [res |-> hit, cache |-> c]
    ELSE LET res == app_load_data(files[p]) IN [res |-> res, cache |-> [c EXCEPT ![p] = res]]

Body(msgs, steps, raised) == [msgs |-> msgs, steps |-> steps, raised |-> raised]

\* lines 40-378
app_home(describe, agg, gran, nha) ==
    IF describe = "Aggregate CPI"
    THEN Body(<<>>, IF IsEmpty(agg) THEN <<>> ELSE <<Step("overview")>>, "none")
    ELSE IF describe = "Categorical CPI"
    THEN IF IsEmpty(gran) THEN Body(<<GranNotLoadedMsg>>, <<>>, "none")
         ELSE Body(<<>>, <<Step("overview")>>, "none")
    ELSE IF IsEmpty(nha) THEN Body(<<NhaHomeNotLoadedMsg>>, <<>>, "none")
         ELSE Body(<<>>, <<Step("overview")>>, "none")

\* lines 379-540
app_aggregate_cpi(agg, pop) ==
    IF IsEmpty(agg) THEN Body(<<AggNotLoadedMsg>>, <<>>, "none")
    ELSE IF "TIME_PERIOD" \notin agg.cols THEN Body(<<PeriodErrorMsg>>, <<>>, "KeyError")
    ELSE IF "OBS_VALUE" \notin agg.cols THEN Body(<<>>, <<>>, "KeyError")
    ELSE IF Aruba \notin agg.countries THEN Body(<<>>, <<>>, "StreamlitAPIException")
    ELSE Body(agg_population_msgs(pop),
              <<Step("chart_cpi_over_time"), Step("stability"), Step("explore_country")>>,
              "none")

\* lines 541-697
app_categorical_cpi(gran) ==
    IF IsEmpty(gran) THEN Body(<<GranNotLoadedMsg>>, <<>>, "none")
    ELSE IF ~({"COICOP_1999", "TIME_PERIOD"} \subseteq gran.cols) THEN Body(<<>>, <<>>, "KeyError")
    ELSE IF UnitedStates \notin gran.countries THEN Body(<<>>, <<>>, "StreamlitAPIException")
    ELSE Body(<<>>, <<Step("category_charts")>>, "none")

\* lines 698-874
app_nha_indicators(nha) ==
    IF IsEmpty(nha) THEN Body(<<NhaNotLoadedMsg>>, <<>>, "none")
    ELSE IF ~({"Value", "Indicators", "Year", "Countries"} \subseteq nha.cols)
    THEN Body(<<>>, <<>>, "KeyError")
    ELSE Body(<<>>, <<Step("nha_charts")>>, "none")

\* one top-to-bottom execution of app.py with the sidebar on `page`
app_script(c, page, describe) ==
    LET la == app_cached_load_data(c, AggCsv)
        lg == app_cached_load_data(la.cache, GranCsv)
        ln == app_cached_load_data(lg.cache, NhaCsv)
        loaded == la.res.msgs \o lg.res.msgs \o ln.res.msgs
    IN
    IF "COUNTRY" \notin la.res.df.cols THEN [out |-> Body(loaded, <<>>, "KeyError"), cache |-> ln.cache]
    ELSE IF "COUNTRY" \notin lg.res.df.cols THEN [out |-> Body(loaded, <<>>, "KeyError"), cache |-> ln.cache]
    ELSE
    LET lp == app_cached_load_data(ln.cache, PopCsv)
        b == IF page = "Home" THEN app_home(describe, la.res.df, lg.res.df, ln.res.df)
             ELSE IF page = "Aggregate CPI" THEN app_aggregate_cpi(la.res.df, lp.res.df)
             ELSE IF page = "Categorical CPI" THEN app_categorical_cpi(lg.res.df)
             ELSE app_nha_indicators(ln.res.df)
    IN [out |-> Body(loaded \o lp.res.msgs \o b.msgs,
                     IF b.raised = "none" THEN b.steps \o <<Step("footer")>> ELSE b.steps,
                     b.raised),
        cache |-> lp.cache]

---------------------------------------------------------------------------
(* SpecApp: reruns of app.py against every state of its four CSV files *)

AppFileStates(p) == {Missing, Malformed} \cup {OkFile(FullCols(p), cs, 1) : cs \in CountrySets}

InitApp ==
    /\ files \in {f \in [AppPaths -> UNION {AppFileStates(p) : p \in AppPaths}] :
                    \A p \in AppPaths : f[p] \in AppFileStates(p)}
    /\ http = NoResponse
    /\ cache = EmptyCache
    /\ popCache = NoEntry
    /\ appCache = EmptyCache
    /\ reads = NoReads
    /\ firstRes = EmptyCache
    /\ calls = 0
    /\ stab = NoStab
    /\ run = NoRun

RunApp ==
    /\ \E page \in AppPages, describe \in Describes :
        LET o == app_script(appCache, page, describe) IN
        /\ appCache' = o.cache
        /\ run' = [op |-> "app", page |-> page, describe |-> describe,
                   msgs |-> o.out.msgs, steps |-> o.out.steps, raised |-> o.out.raised]
    /\ UNCHANGED <<files, http, cache, popCache, reads, firstRes, calls, stab>>

NextApp == RunApp

SpecApp == InitApp /\ [][NextApp]_vars

\* the CSV a page of app.py shows, and the warning it shows without it
PageCsv(page) ==
    IF page = "Aggregate CPI" THEN AggCsv
    ELSE IF page = "Categorical CPI" THEN GranCsv
    ELSE NhaCsv

PageWarning(page) ==
    IF page = "Aggregate CPI" THEN AggNotLoadedMsg
    ELSE IF page = "Categorical CPI" THEN GranNotLoadedMsg
    ELSE NhaNotLoadedMsg

\* C8: when a CSV file cannot be read, app.py still runs to its end without
\* an exception; the page whose data is missing shows its 'not loaded'
\* warning and every other page is rendered.
AppSurvivesUnreadableCsv ==
    (/\ run.op = "app"
     /\ \E p \in AppPaths : ~Readable(p)
     /\ \A p \in AppPaths : Readable(p) => files[p].df.countries = Countries) =>
        /\ run.raised = "none"
        /\ <<"footer", 0>> \in {run.steps[i] : i \in DOMAIN run.steps}
        /\ (run.page # "Home" /\ ~Readable(PageCsv(run.page))) =>
               PageWarning(run.page) \in Shown(run.msgs)

---------------------------------------------------------------------------
(* app/util/data_processing.py and app/pages/Aggregate_CPI.py: the         *)
(* 'Top 10 Most Stable Countries' section.  The CPI table holds, for each  *)
(* country, the non-missing YoY_change values of its rows and the          *)
(* Population the left merge gave its rows (NoPop: no match).  Countries   *)
(* are numbered in the alphabetical order of COUNTRY_NAME.                 *)

StabCountries == 1..NumStab
NoPop == -1
Million == 1000000
TopN == 10

RECURSIVE SumSeq(_)
SumSeq(s) == IF s = <<>> THEN 0 ELSE Head(s) + SumSeq(Tail(s))

RECURSIVE SumSq(_)
SumSq(s) == IF s = <<>> THEN 0 ELSE Head(s) * Head(s) + SumSq(Tail(s))

\* Series.std() is missing for fewer than two values
HasStd(s) == Len(s) >= 2

\* the sample variance of s as the fraction <<numerator, denominator>>
Variance(s) == <<Len(s) * SumSq(s) - SumSeq(s) * SumSeq(s), Len(s) * (Len(s) - 1)>>

\* std(a) < std(b), for series that have one
StdLess(a, b) == Variance(a)[1] * Variance(b)[2] < Variance(b)[1] * Variance(a)[2]

SetMin(S) == CHOOSE x \in S : \A y \in S : x <= y
SetMax(S) == CHOOSE x \in S : \A y \in S : y <= x

RECURSIVE Ascending(_)
Ascending(S) == IF S = {} THEN <<>> ELSE <<SetMin(S)>> \o Ascending(S \ {SetMin(S)})

Known(t) == {t[c].pop : c \in DOMAIN t} \ {NoPop}

\* Aggregate_CPI.py line 46
filter_active(t) == Known(t) # {}

min_pop_M(t) == SetMin(Known(t)) \div Million
max_pop_M(t) == (SetMax(Known(t)) + 999999) \div Million
slider_step(lo, hi) == IF (hi - lo) \div 100 > 1 THEN (hi - lo) \div 100 ELSE 1

\* lines 55-67: the range the filter uses; pick: the slider position the user
\* chose ("all", "raise_min" or "lower_max")
population_range(t, pick) ==
    LET lo == min_pop_M(t)
        hi == max_pop_M(t)
    IN
    IF lo >= hi
    THEN IF lo # 0 THEN <<lo, lo + 1>> ELSE <<0, 1>>
    ELSE IF pick = "raise_min" /\ lo + slider_step(lo, hi) <= hi
    THEN <<lo + slider_step(lo, hi), hi>>
    ELSE IF pick = "lower_max" /\ hi - slider_step(lo, hi) >= lo
    THEN <<lo, hi - slider_step(lo, hi)>>
    ELSE <<lo, hi>>

\* lines 69-77: the countries whose rows remain in filtered_cpi_df
population_filter(t, pick) ==
    IF filter_active(t)
    THEN LET rg == population_range(t, pick) IN
         {c \in DOMAIN t : /\ t[c].pop # NoPop
                           /\ t[c].pop >= rg[1] * Million
                           /\ t[c].pop <= rg[2] * Million}
    ELSE DOMAIN t

\* data_processing.calculate_cpi_stability: groupby('COUNTRY_NAME').std(),
\* reset_index, dropna; the rows stay in the order of the group keys
calculate_cpi_stability(t, kept) == Ascending({c \in kept : HasStd(t[c].yoy)})

\* DataFrame.head(n)
head(rows, n) == SubSeq(rows, 1, Min2(n, Len(rows)))


---------------------------------------------------------------------------
(* SpecStab: the stability section on every CPI table of a small family *)

StabRows == {[yoy |-> y, pop |-> q] : y \in {<<1>>, <<2, 2>>, <<1, 3>>},
                                      q \in {NoPop, Million, 50 * Million}}

DefaultRow == [yoy |-> <<1, 3>>, pop |-> 50 * Million]

\* the tables in which at most two countries differ from the default row
StabTables ==
    {[c \in StabCountries |-> IF c = a THEN ra ELSE IF c = b THEN rb ELSE DefaultRow] :
        a \in StabCountries, b \in StabCountries, ra \in StabRows, rb \in StabRows}

SliderPicks == {"all", "raise_min", "lower_max"}

InitStab ==
    /\ stab \in StabTables
    /\ files = NoFiles
    /\ http = NoResponse
    /\ cache = EmptyCache
    /\ popCache = NoEntry
    /\ appCache = EmptyCache
    /\ reads = NoReads
    /\ firstRes = EmptyCache
    /\ calls = 0
    /\ run = NoRun

RunAggregateCpiScript ==
    /\ \E pick \in SliderPicks :
        LET kept == population_filter(stab, pick) IN
        run' = [op |-> "Aggregate_CPI", pick |-> pick, kept |-> kept,
                table |-> head(calculate_cpi_stability(stab, kept), TopN)]
    /\ UNCHANGED <<files, http, cache, popCache, appCache, reads, firstRes, calls, stab>>

NextStab == RunAggregateCpiScript

SpecStab == InitStab /\ [][NextStab]_vars

Listed(rows) == {rows[i] : i \in DOMAIN rows}

\* C10: the table holds the min(10, n) countries with the lowest
\* CPI_Stability_Score among the n countries that pass the population filter
\* and have a score: no country outside it has a strictly lower score than a
\* country inside it.
TopStableHasLowestScores ==
    run.op = "Aggregate_CPI" =>
        LET eligible == {c \in run.kept : HasStd(stab[c].yoy)} IN
        /\ Len(run.table) = Min2(TopN, Cardinality(eligible))
        /\ Listed(run.table) \subseteq eligible
        /\ \A c \in eligible \ Listed(run.table), d \in Listed(run.table) :
               ~StdLess(stab[c].yoy, stab[d].yoy)

---------------------------------------------------------------------------
(* app/sidebar_pages/aggregate_cpi_page.py lines 95-141: the population    *)
(* filter and the stability table of the sidebar page.                     *)

SliderStep == 10

\* lines 105-112: st.slider(min_value, max_value, value=(min, max), step=10);
\* the positions are min_value + k * step
page_population_range(t, pick) ==
    LET lo == min_pop_M(t)
        hi == max_pop_M(t)
    IN
    IF pick = "raise_min" /\ lo + SliderStep <= hi THEN <<lo + SliderStep, hi>>
    ELSE IF pick = "lower_max" /\ lo + SliderStep <= hi THEN <<lo, lo + SliderStep>>
    ELSE <<lo, hi>>

\* lines 98-122
page_population_filter(t, pick) ==
    IF filter_active(t)
    THEN LET rg == page_population_range(t, pick) IN
         {c \in DOMAIN t : /\ t[c].pop # NoPop
                           /\ t[c].pop >= rg[1] * Million
                           /\ t[c].pop <= rg[2] * Million}
    ELSE DOMAIN t

\* Series.sort_values() uses an unstable sort: countries of equal value may
\* come in either order of their names
TieOrders == {"name_asc", "name_desc"}

\* lines 131-133: groupby('COUNTRY_NAME')['YoY_change'].std().dropna(), the
\* series of the variances of the kept countries that have one
std_dropna(t, kept) ==
    [c \in {d \in kept : HasStd(t[d].yoy)} |-> Variance(t[c].yoy)]

Less(v, w) == v[1] * w[2] < w[1] * v[2]

\* c comes before d in the sorted series
Before(sc, c, d, tie) ==
    \/ Less(sc[c], sc[d])
    \/ /\ ~Less(sc[d], sc[c])
       /\ IF tie = "name_asc" THEN c < d ELSE d < c

\* seq, sorted, with c put at its place
InsertSorted(sc, seq, c, tie) ==
    LET k == Cardinality({i \in DOMAIN seq : Before(sc, seq[i], c, tie)}) IN
    SubSeq(seq, 1, k) \o <<c>> \o SubSeq(seq, k + 1, Len(seq))

RECURSIVE SortedFrom(_, _, _)
SortedFrom(sc, S, tie) ==
    IF S = {} THEN <<>>
    ELSE LET c == SetMax(S) IN
         InsertSorted(sc, SortedFrom(sc, S \ {c}, tie), c, tie)

\* the series left in the order of the group keys
sort_values_skipped(sc, tie) == Ascending(DOMAIN sc)

\* line 134: the index of the series, ascending by value
sort_values(sc, tie) == SortedFrom(sc, DOMAIN sc, tie)

\* lines 125-137; an empty frame when no row has a YoY_change
page_stability_df(t, kept, tie) ==
    IF \A c \in kept : t[c].yoy = <<>>
    THEN <<>>
    ELSE sort_values(std_dropna(t, kept), tie)

---------------------------------------------------------------------------
(* SpecTop: the stability section of the sidebar page on a family of CPI   *)
(* tables of NumTop countries                                              *)

TopCountries == 1..NumTop

TopRows == {[yoy |-> y, pop |-> q] : y \in {<<1>>, <<2, 2>>, <<1, 3>>, <<0, 4>>},
                                     q \in {NoPop, Million, 50 * Million}}

\* the tables in which at most the last country and one other differ from the
\* default row
TopTables ==
    {[c \in TopCountries |-> IF c = a THEN ra ELSE IF c = NumTop THEN rb ELSE DefaultRow] :
        a \in TopCountries, ra \in TopRows, rb \in TopRows}

InitTop ==
    /\ stab \in TopTables
    /\ files = NoFiles
    /\ http = NoResponse
    /\ cache = EmptyCache
    /\ popCache = NoEntry
    /\ appCache = EmptyCache
    /\ reads = NoReads
    /\ firstRes = EmptyCache
    /\ calls = 0
    /\ run = NoRun

\* sidebar_pages/aggregate_cpi_page.py lines 95-141 (the same code stands in
\* app.py lines 461-507)
RunStabilitySection ==
    /\ \E pick \in SliderPicks, tie \in TieOrders :
        LET kept == page_population_filter(stab, pick) IN
        run' = [op |-> "aggregate_cpi_page", pick |-> pick, kept |-> kept,
                table |-> head(page_stability_df(stab, kept, tie), TopN)]
    /\ UNCHANGED <<files, http, cache, popCache, appCache, reads, firstRes, calls, stab>>

NextTop == RunStabilitySection

SpecTop == InitTop /\ [][NextTop]_vars

\* C11: in aggregate_cpi_page the 'Top 10 Most Stable Countries' table holds
\* the min(10, n) countries of lowest standard deviation of YoY change among
\* the n countries that pass the population filter and have a standard
\* deviation, each once, listed in ascending order of that value.
TopTenLowestAscending ==
    run.op = "aggregate_cpi_page" =>
        LET eligible == {c \in run.kept : HasStd(stab[c].yoy)} IN
        /\ Len(run.table) = Min2(TopN, Cardinality(eligible))
        /\ Cardinality(Listed(run.table)) = Len(run.table)
        /\ Listed(run.table) \subseteq eligible
        /\ \A c \in eligible \ Listed(run.table), d \in Listed(run.table) :
               ~StdLess(stab[c].yoy, stab[d].yoy)
        /\ \A i, j \in DOMAIN run.table :
               i < j => ~StdLess(stab[run.table[j]].yoy, stab[run.table[i]].yoy)

\* more than ten eligible countries, the slider moved, a country filtered
\* out, and the alphabetically last country listed first
TopTenWitness ==
    /\ run.op = "aggregate_cpi_page"
    /\ run.pick # "all"
    /\ run.kept # TopCountries
    /\ Cardinality({c \in run.kept : HasStd(stab[c].yoy)}) > TopN
    /\ Len(run.table) = TopN
    /\ run.table[1] = NumTop
    /\ StdLess(stab[run.table[1]].yoy, stab[run.table[TopN]].yoy)

---------------------------------------------------------------------------
(* The year-over-year change: data_processing.py lines 27-29,              *)
(* aggregate_cpi_page.py lines 36-40, categorical_cpi_page.py line 131,    *)
(* clustering_page.py lines 92-93.  The CPI table holds, for each group    *)
(* (a COUNTRY_NAME, or a COUNTRY_NAME and a Category), the quarters that   *)
(* have a row after dropna(subset=['OBS_VALUE']); quarter t is quarter     *)
(* ((t - 1) % 4) + 1 of year (t - 1) \div 4.                               *)

Groups == 1..NumGroups
Quarters == 1..MaxQuarter
\* the missing value, as a fraction of denominator 0
NaN == <<0, 0>>
Periods == 4
QuartersPerYear == 4

\* the OBS_VALUE of group g in quarter t
OBS_VALUE(g, t) == 100 * g + t * t

\* (cur / prev - 1) * 100 as the fraction <<numerator, denominator>>
pct(cur, prev) == <<100 * (cur - prev), prev>>

\* sort_values([..., 'Time']): the quarters of a group in ascending order
sorted_rows(present) == Ascending(present)

\* groupby(...)['OBS_VALUE'].pct_change(periods=k): each row against the row
\* k positions before it in its group
pct_change(g, present, k) ==
    LET rows == sorted_rows(present) IN
    [i \in DOMAIN rows |->
        IF i - k >= 1
        THEN pct(OBS_VALUE(g, rows[i]), OBS_VALUE(g, rows[i - k]))
        ELSE NaN]

\* the YoY_change column: quarter -> value, for every group
yoy_change(t) ==
    [g \in DOMAIN t |->
        LET rows == sorted_rows(t[g])
            col == pct_change(g, t[g], Periods)
        IN [q \in t[g] |-> col[CHOOSE i \in DOMAIN rows : rows[i] = q]]]

---------------------------------------------------------------------------
(* SpecYoY: the YoY step on every table of NumGroups series over           *)
(* MaxQuarter quarters                                                     *)

YoYTables == [Groups -> SUBSET Quarters]

InitYoY ==
    /\ stab \in YoYTables
    /\ files = NoFiles
    /\ http = NoResponse
    /\ cache = EmptyCache
    /\ popCache = NoEntry
    /\ appCache = EmptyCache
    /\ reads = NoReads
    /\ firstRes = EmptyCache
    /\ calls = 0
    /\ run = NoRun

ComputeYoY ==
    /\ run' = [op |-> "pct_change", yoy |-> yoy_change(stab)]
    /\ UNCHANGED <<files, http, cache, popCache, appCache, reads, firstRes, calls, stab>>

NextYoY == ComputeYoY

SpecYoY == InitYoY /\ [][NextYoY]_vars

\* C12: the year-over-year change of every row is computed against the value
\* of the same group for the same quarter of the previous year, and is
\* missing when that quarter has no value, also for series with missing
\* quarters.
YoYAgainstSameQuarterOfPreviousYear ==
    run.op = "pct_change" =>
        \A g \in Groups : \A q \in stab[g] :
            run.yoy[g][q] =
                IF q - QuartersPerYear \in stab[g]
                THEN pct(OBS_VALUE(g, q), OBS_VALUE(g, q - QuartersPerYear))
                ELSE NaN

---------------------------------------------------------------------------
(* data_processing.merge_cpi_with_population_for_filtering, lines 151-202. *)
(* A table is a record of its column set and the sequence of its rows.     *)
(* The function works on named DataFrame objects; heap maps each name to   *)
(* the table the object holds, so that an in-place operation on an alias   *)
(* of an argument shows in the argument.                                   *)

MergeCountries == 1..2
MergeYears == 1..2
\* a Population cell that is not a number; NoPop (-1) is the missing value
Unparsable == -2

CpiMergeCols == {"COUNTRY_NAME", "Year", "Q_Num", "OBS_VALUE"}
pop_req_cols == {"Country/Territory", "Year", "Population"}

Frame(cols, rows) == [cols |-> cols, rows |-> rows]
NoFrame == Frame({}, <<>>)

\* DataFrame.empty
empty(df) == df.cols = {} \/ df.rows = <<>>

Heap(cpi, pop) ==
    [df_cpi |-> cpi, df_population |-> pop, df_cpi_merged |-> NoFrame,
     df_pop_prepared |-> NoFrame]

\* an assignment without copy: the new name is bound to the object itself
copy_aliased(h, src, dst) == [heap |-> h, ref |-> src]

\* DataFrame.copy(): a new object with the same content
copy(h, src, dst) == [heap |-> [h EXCEPT ![dst] = h[src]], ref |-> dst]

\* pd.to_numeric(errors='coerce') of one value
to_numeric(v) == IF v = Unparsable THEN NoPop ELSE v

\* lines 176-179 on the object they are applied to: rename(inplace=True),
\* to_numeric of 'Population', dropna(inplace=True), Year.astype(int)
prepare(df) ==
    LET coerced == [i \in DOMAIN df.rows |->
                       [df.rows[i] EXCEPT !.pop = to_numeric(@)]]
    IN Frame((df.cols \ {"Country/Territory"}) \cup {"COUNTRY_NAME"},
             SelectSeq(coerced, LAMBDA r : r.pop # NoPop))

\* the rows pd.merge(how='left', on=['COUNTRY_NAME', 'Year']) makes of one
\* left row: one for each matching right row, in the order of the right
\* table, or one with a missing Population
merge_row(r, right) ==
    LET matches == SelectSeq(right, LAMBDA p : p.c = r.c /\ p.y = r.y) IN
    IF matches = <<>>
    THEN <<[c |-> r.c, y |-> r.y, q |-> r.q, pop |-> NoPop]>>
    ELSE [i \in DOMAIN matches |->
             [c |-> r.c, y |-> r.y, q |-> r.q, pop |-> matches[i].pop]]

RECURSIVE merge_left(_, _)
merge_left(left, right) ==
    IF left = <<>> THEN <<>>
    ELSE merge_row(Head(left), right) \o merge_left(Tail(left), right)

\* what a call leaves: the returned table and the two arguments
Returned(df, h) ==
    [result |-> df, df_cpi |-> h.df_cpi, df_population |-> h.df_population]

merge_cpi_with_population_for_filtering(df_cpi, df_population) ==
    LET a == copy(Heap(df_cpi, df_population), "df_cpi", "df_cpi_merged") IN
    IF empty(a.heap.df_population)
    THEN Returned(a.heap[a.ref], a.heap)
    ELSE IF ~(pop_req_cols \subseteq a.heap.df_population.cols)
    THEN Returned(a.heap[a.ref], a.heap)
    ELSE LET b == copy(a.heap, "df_population", "df_pop_prepared")
             h == [b.heap EXCEPT ![b.ref] = prepare(@)]
             merged == Frame(h[a.ref].cols \cup {"Population"},
                             merge_left(h[a.ref].rows, h[b.ref].rows))
         IN Returned(merged, h)

---------------------------------------------------------------------------
(* SpecMerge: the merge on every pair of a CPI table of at most MaxCpiRows *)
(* rows and a population table of at most MaxPopRows rows                  *)

CpiMergeRows == {[c |-> c, y |-> 1, q |-> q] : c \in MergeCountries, q \in 1..2}

PopMergeRows == {[c |-> c, y |-> y, pop |-> v] :
                    c \in MergeCountries, y \in MergeYears, v \in {NoPop, Unparsable, 5}}

SeqsUpTo(S, n) == UNION {[1..k -> S] : k \in 0..n}

\* the quarterly CPI rows are distinct
CpiFrames ==
    {Frame(CpiMergeCols, rows) :
        rows \in {r \in SeqsUpTo(CpiMergeRows, MaxCpiRows) :
                      \A i, j \in DOMAIN r : i # j => r[i] # r[j]}}

PopFrames ==
    {Frame(pop_req_cols \cup {"Rank"}, rows) : rows \in SeqsUpTo(PopMergeRows, MaxPopRows)}
    \cup {Frame((pop_req_cols \cup {"Rank"}) \ {col}, rows) :
              col \in pop_req_cols, rows \in SeqsUpTo(PopMergeRows, 1)}

InitMerge ==
    /\ stab \in [df_cpi : CpiFrames, df_population : PopFrames]
    /\ files = NoFiles
    /\ http = NoResponse
    /\ cache = EmptyCache
    /\ popCache = NoEntry
    /\ appCache = EmptyCache
    /\ reads = NoReads
    /\ firstRes = EmptyCache
    /\ calls = 0
    /\ run = NoRun

CallMerge ==
    /\ run' = [op |-> "merge"] @@
              merge_cpi_with_population_for_filtering(stab.df_cpi, stab.df_population)
    /\ UNCHANGED <<files, http, cache, popCache, appCache, reads, firstRes, calls, stab>>

NextMerge == CallMerge

SpecMerge == InitMerge /\ [][NextMerge]_vars

\* the CPI columns of a result row
CpiPart(r) == [c |-> r.c, y |-> r.y, q |-> r.q]

\* the non-missing Population values the population data has for a pair
PairValues(pop, c, y) ==
    IF pop_req_cols \subseteq pop.cols
    THEN {to_numeric(pop.rows[i].pop) : i \in {k \in DOMAIN pop.rows :
             pop.rows[k].c = c /\ pop.rows[k].y = y}} \ {NoPop}
    ELSE {}

\* C13: merge_cpi_with_population_for_filtering returns exactly the rows of
\* the CPI input, none lost and none duplicated, each carrying the Population
\* of its (COUNTRY_NAME, Year) pair when the population data has a
\* non-missing value for the pair and a missing Population otherwise.
MergeKeepsCpiRows ==
    run.op = "merge" =>
        /\ Len(run.result.rows) = Len(stab.df_cpi.rows)
        /\ \A i \in DOMAIN run.result.rows :
            /\ CpiPart(run.result.rows[i]) = stab.df_cpi.rows[i]
            /\ "Population" \in run.result.cols =>
                   LET vals == PairValues(stab.df_population,
                                          run.result.rows[i].c, run.result.rows[i].y)
                   IN IF vals = {} THEN run.result.rows[i].pop = NoPop
                      ELSE run.result.rows[i].pop \in vals

\* the call returned a copy of the CPI input without merging
MergeSkipped ==
    \/ empty(stab.df_population)
    \/ ~(pop_req_cols \subseteq stab.df_population.cols)

\* C14: merge_cpi_with_population_for_filtering leaves its df_cpi and
\* df_population arguments as they were on every path, and when the
\* population is empty or lacks a required column the result equals the CPI
\* input.
MergeLeavesArguments ==
    run.op = "merge" =>
        /\ run.df_cpi = stab.df_cpi
        /\ run.df_population = stab.df_population
        /\ MergeSkipped => run.result = stab.df_cpi

\* a successful merge whose preparation of the population data renamed a
\* column, coerced a cell and dropped a row
MergeLeavesArgumentsWitness ==
    /\ run.op = "merge"
    /\ ~MergeSkipped
    /\ \E i \in DOMAIN stab.df_population.rows :
           stab.df_population.rows[i].pop = Unparsable
    /\ \E i \in DOMAIN run.result.rows : run.result.rows[i].pop # NoPop
    /\ run.result # stab.df_cpi

---------------------------------------------------------------------------
(* clustering_page.py lines 145-151: the missing-value step on the         *)
(* combined feature matrix.  A matrix is the set of its rows (countries),  *)
(* the set of its numeric columns and the cells; a cell is a fraction      *)
(* <<numerator, denominator>>, the missing value being <<0, 0>>.           *)

MatCountries == 1..MatRows
MatCols == 1..MatFeatures
NaNCell == <<0, 0>>

Matrix(rows, cols, cell) == [rows |-> rows, cols |-> cols, cell |-> cell]

RECURSIVE SumCells(_, _, _)
SumCells(m, f, S) ==
    IF S = {} THEN 0
    ELSE LET c == CHOOSE x \in S : TRUE IN m.cell[c][f][1] + SumCells(m, f, S \ {c})

\* the rows that have a value in column f
having(m, f) == {c \in m.rows : m.cell[c][f] # NaNCell}

\* line 147: dropna(axis=1, how='all', inplace=True)
dropna_all_columns(m) ==
    LET kept == {f \in m.cols : having(m, f) # {}} IN
    Matrix(m.rows, kept, [c \in m.rows |-> [f \in kept |-> m.cell[c][f]]])

\* Series.mean() of column f, skipping missing values
mean(m, f) == <<SumCells(m, f, having(m, f)), Cardinality(having(m, f))>>

\* lines 148-149: combined_features[col].fillna(mean, inplace=True) for every
\* numeric column.  The fill acts on the Series that combined_features[col]
\* returns; reached: whether it reaches the frame (it does when the Series
\* is a view of the frame, it does not under pandas copy-on-write)
fillna_mean(m, reached) ==
    IF reached
    THEN Matrix(m.rows, m.cols,
                [c \in m.rows |-> [f \in m.cols |->
                    IF m.cell[c][f] = NaNCell THEN mean(m, f) ELSE m.cell[c][f]]])
    ELSE m

\* line 150: dropna(inplace=True)
dropna_rows(m) ==
    LET kept == {c \in m.rows : \A f \in m.cols : m.cell[c][f] # NaNCell} IN
    Matrix(kept, m.cols, [c \in kept |-> m.cell[c]])

missing_value_step(m, reached) == dropna_rows(fillna_mean(dropna_all_columns(m), reached))

---------------------------------------------------------------------------
(* SpecMissing: the missing-value step on every matrix of MatRows          *)
(* countries and MatFeatures features                                      *)

CellValues(f) == IF f = 1 THEN {NaNCell, <<1, 1>>, <<3, 1>>} ELSE {NaNCell, <<2, 1>>}

\* the rows a country can have
MatrixRows ==
    {x \in [MatCols -> UNION {CellValues(f) : f \in MatCols}] :
        \A f \in MatCols : x[f] \in CellValues(f)}

Matrices ==
    {Matrix(MatCountries, MatCols, cell) : cell \in [MatCountries -> MatrixRows]}

InitMissing ==
    /\ stab \in Matrices
    /\ files = NoFiles
    /\ http = NoResponse
    /\ cache = EmptyCache
    /\ popCache = NoEntry
    /\ appCache = EmptyCache
    /\ reads = NoReads
    /\ firstRes = EmptyCache
    /\ calls = 0
    /\ run = NoRun

HandleMissingValues ==
    /\ \E reached \in BOOLEAN :
        run' = [op |-> "missing_values", reached |-> reached,
                matrix |-> missing_value_step(stab, reached)]
    /\ UNCHANGED <<files, http, cache, popCache, appCache, reads, firstRes, calls, stab>>

NextMissing == HandleMissingValues

SpecMissing == InitMissing /\ [][NextMissing]_vars

\* C15: after the missing-value step the combined feature matrix has no
\* missing value in any cell: the columns empty for every country are
\* dropped, each remaining missing numeric value is replaced by the mean of
\* its feature over the countries that have it, and any row still incomplete
\* is dropped.
NoMissingAfterImputation ==
    run.op = "missing_values" =>
        LET m == run.matrix IN
        /\ \A c \in m.rows, f \in m.cols : m.cell[c][f] # NaNCell
        /\ m.cols = {f \in stab.cols : having(stab, f) # {}}
        /\ \A c \in stab.rows :
              IF c \in m.rows
              THEN \A f \in m.cols :
                      m.cell[c][f] = IF stab.cell[c][f] = NaNCell
                                     THEN mean(stab, f) ELSE stab.cell[c][f]
              ELSE \A f \in m.cols : stab.cell[c][f] = NaNCell

---------------------------------------------------------------------------
(* clustering_page.py lines 95-127: the three feature tables and their     *)
(* outer merges.  A cleaned table is the sequence of its rows, a row being *)
(* a COUNTRY_NAME and the Category or Indicators value it belongs to; a    *)
(* row of a feature table or of the combined matrix is a COUNTRY_NAME and  *)
(* the set of sources its features come from.                              *)

FeatCountries == 1..2
FeatKeys == 1..2

Keys(table) == {table[i].c : i \in DOMAIN table}

\* the table without aggregation: one row for each row of the table
groupby_skipped(raw, src) == [i \in DOMAIN raw |-> [c |-> raw[i].c, src |-> {src}]]

\* lines 95-116: groupby(['COUNTRY_NAME', ...]).agg(...).unstack(...)
\* .reset_index(), or groupby('COUNTRY_NAME').agg(...).reset_index(): one
\* row for each COUNTRY_NAME, in ascending order
groupby_agg(raw, src) ==
    LET names == Ascending(Keys(raw)) IN
    [i \in DOMAIN names |-> [c |-> names[i], src |-> {src}]]

\* the rows an outer merge makes for one COUNTRY_NAME
merged_for(left, right, c) ==
    LET l == SelectSeq(left, LAMBDA r : r.c = c)
        r == SelectSeq(right, LAMBDA x : x.c = c)
    IN IF r = <<>> THEN l
       ELSE IF l = <<>> THEN r
       ELSE [i \in 1..(Len(l) * Len(r)) |->
                [c |-> c, src |-> l[((i - 1) \div Len(r)) + 1].src
                                   \cup r[((i - 1) % Len(r)) + 1].src]]

RECURSIVE merge_over(_, _, _)
merge_over(left, right, names) ==
    IF names = <<>> THEN <<>>
    ELSE merged_for(left, right, Head(names)) \o merge_over(left, right, Tail(names))

\* pd.merge(left, right, on='COUNTRY_NAME', how='outer'): the keys in
\* ascending order
merge_outer(left, right) == merge_over(left, right, Ascending(Keys(left) \cup Keys(right)))

\* lines 95-127
combine_features(cpi, nha, pop) ==
    LET cpi_agg_features == groupby_agg(cpi, "cpi")
        nha_agg_features == groupby_agg(nha, "nha")
        population_features == groupby_agg(pop, "pop")
    IN [cpi |-> cpi_agg_features, nha |-> nha_agg_features, pop |-> population_features,
        combined_features |->
            merge_outer(merge_outer(cpi_agg_features, nha_agg_features),
                        population_features)]

---------------------------------------------------------------------------
(* SpecCombine: feature engineering and merging on every triple of cleaned *)
(* tables of at most MaxRaw rows                                           *)

CpiRaw == SeqsUpTo({[c |-> c, k |-> k] : c \in FeatCountries, k \in FeatKeys}, MaxRaw)
NhaRaw == SeqsUpTo({[c |-> c, k |-> 1] : c \in FeatCountries}, MaxRaw)
PopRaw == SeqsUpTo({[c |-> c, k |-> 1] : c \in FeatCountries}, MaxRaw)

InitCombine ==
    /\ stab \in [cpi : CpiRaw, nha : NhaRaw, pop : PopRaw]
    /\ files = NoFiles
    /\ http = NoResponse
    /\ cache = EmptyCache
    /\ popCache = NoEntry
    /\ appCache = EmptyCache
    /\ reads = NoReads
    /\ firstRes = EmptyCache
    /\ calls = 0
    /\ run = NoRun

CombineFeatures ==
    /\ run' = [op |-> "combine"] @@ combine_features(stab.cpi, stab.nha, stab.pop)
    /\ UNCHANGED <<files, http, cache, popCache, appCache, reads, firstRes, calls, stab>>

NextCombine == CombineFeatures

SpecCombine == InitCombine /\ [][NextCombine]_vars

\* C16: the combined feature matrix has exactly one row for each distinct
\* COUNTRY_NAME that occurs in at least one of the CPI, NHA and population
\* feature tables, and no COUNTRY_NAME occurs in two rows.
OneRowPerCountry ==
    run.op = "combine" =>
        /\ Keys(run.combined_features) = Keys(run.cpi) \cup Keys(run.nha) \cup Keys(run.pop)
        /\ \A i, j \in DOMAIN run.combined_features :
               run.combined_features[i].c = run.combined_features[j].c => i = j

\* a country with two rows in the CPI table and two in the population table,
\* and another country that only the NHA table has
OneRowPerCountryWitness ==
    /\ run.op = "combine"
    /\ Len(SelectSeq(stab.cpi, LAMBDA r : r.c = 1)) = 2
    /\ Len(SelectSeq(stab.pop, LAMBDA r : r.c = 1)) = 2
    /\ Keys(stab.nha) = {2}
    /\ Len(run.combined_features) = 2
    /\ run.combined_features[1].src = {"cpi", "pop"}
    /\ run.combined_features[2].src = {"nha"}

---------------------------------------------------------------------------
(* clustering_page.py lines 155-398: feature selection, scaling and        *)
(* K-Means on a matrix of stab.final countries and stab.available numeric  *)
(* features.                                                               *)

\* lines 179-183: st.multiselect(options=available_features, default=None).
\* touched: the user changed the widget, to pick features; otherwise the
\* widget returns its default, the empty list
selected_features(available, touched, pick) == IF touched THEN pick ELSE 0

---------------------------------------------------------------------------
(* SpecCluster: the steps after the missing-value step, for every size of  *)
(* the matrix                                                              *)

InitCluster ==
    /\ stab \in [final : 0..MaxFinal, available : 1..MaxSelected]
    /\ files = NoFiles
    /\ http = NoResponse
    /\ cache = EmptyCache
    /\ popCache = NoEntry
    /\ appCache = EmptyCache
    /\ reads = NoReads
    /\ firstRes = EmptyCache
    /\ calls = 0
    /\ run = NoRun

RunClusteringSteps ==
    /\ \E touched \in BOOLEAN, pick \in 0..stab.available,
          maxk \in MinK..(MaxFinal - 1), kfinal \in MinK..(MaxFinal - 1) :
        LET nsel == selected_features(stab.available, touched, pick) IN
        run' = [op |-> "clustering_steps", touched |-> touched, nsel |-> nsel,
                maxk |-> maxk, kfinal |-> kfinal] @@
               clustering_pipeline(stab.final, nsel, maxk, kfinal)
    /\ UNCHANGED <<files, http, cache, popCache, appCache, reads, firstRes, calls, stab>>

NextCluster == RunClusteringSteps

SpecCluster == InitCluster /\ [][NextCluster]_vars

StepNames(steps) == {steps[i][1] : i \in DOMAIN steps}

\* C17: without any user interaction the initial selection of the feature
\* selector is all available numeric features, so a first run with valid
\* data proceeds to scaling instead of stopping at the 'Please select at
\* least one feature' warning.
DefaultSelectionIsAllFeatures ==
    (run.op = "clustering_steps" /\ ~run.touched /\ stab.final >= 2) =>
        /\ run.nsel = stab.available
        /\ SelectFeatureMsg \notin Shown(run.msgs)
        /\ "scale" \in StepNames(run.steps)

\* C18: K-Means is performed whenever at least 2 countries with complete
\* data remain and at least 2 features are selected; the page stops with the
\* 'Not enough distinct countries or features' warning only when fewer than
\* 2 countries or fewer than 2 features are available.
KMeansWithTwoCountriesAndFeatures ==
    run.op = "clustering_steps" =>
        /\ (stab.final >= 2 /\ run.nsel >= 2) => "kmeans_final" \in StepNames(run.steps)
        /\ TooFewForKMeansMsg \in Shown(run.msgs) => (stab.final < 2 \/ run.nsel < 2)

---------------------------------------------------------------------------
(* util/population_graphs.plot_world_population_share, lines 128-158 (the  *)
(* same code stands in population_page.py lines 280-300).  The population  *)
(* table has one row for each country: its Year, its 'World Population     *)
(* Percentage' in tenths of a percent (NoShare: the cell is missing) and   *)
(* its Population.                                                         *)

PieCountries == 1..NumPie
PieYears == 1..2
NoShare == -1
Threshold == 10
OtherCountries == 0

Reverse(seq) == [i \in DOMAIN seq |-> seq[Len(seq) + 1 - i]]

\* line 139: df[df['Year'] == selected_year].sort_values(by='World Population
\* Percentage', ascending=False): the countries of the year by descending
\* share, those without a share last
df_plot(t, selected_year, tie) ==
    LET of_year == {c \in DOMAIN t : t[c].year = selected_year}
        shares == [c \in {d \in of_year : t[d].share # NoShare} |-> <<t[c].share, 1>>]
    IN Reverse(SortedFrom(shares, DOMAIN shares, tie))
       \o Ascending({c \in of_year : t[c].share = NoShare})

Slice(t, c) == [name |-> c, share |-> t[c].share, pop |-> t[c].pop]

\* the chart rows with the small countries left out
with_other_row_skipped(large, other) == large

\* lines 145-158: the row that sums the small countries, appended
with_other_row(large, other) ==
    IF other # <<>>
    THEN Append(large, [name |-> OtherCountries,
                        share |-> SumSeq([i \in DOMAIN other |-> other[i].share]),
                        pop |-> SumSeq([i \in DOMAIN other |-> other[i].pop])])
    ELSE large

\* lines 139-158: the rows given to px.pie, <<>> when no chart is drawn
plot_world_population_share(t, selected_year, tie) ==
    LET plot == df_plot(t, selected_year, tie)
        rows == [i \in DOMAIN plot |-> Slice(t, plot[i])]
        df_large_share == SelectSeq(rows, LAMBDA r : r.share # NoShare /\ r.share >= Threshold)
        df_other == SelectSeq(rows, LAMBDA r : r.share # NoShare /\ r.share < Threshold)
    IN IF plot = <<>> THEN <<>> ELSE with_other_row(df_large_share, df_other)

---------------------------------------------------------------------------
(* SpecPie: the pie chart on every population table of NumPie countries    *)

PieRows ==
    {[year |-> 1, share |-> sh, pop |-> q] : sh \in {NoShare, 5, 10, 30}, q \in {3, 7}}
    \cup {[year |-> 2, share |-> 30, pop |-> 7]}

InitPie ==
    /\ stab \in [PieCountries -> PieRows]
    /\ files = NoFiles
    /\ http = NoResponse
    /\ cache = EmptyCache
    /\ popCache = NoEntry
    /\ appCache = EmptyCache
    /\ reads = NoReads
    /\ firstRes = EmptyCache
    /\ calls = 0
    /\ run = NoRun

PlotWorldPopulationShare ==
    /\ \E selected_year \in PieYears, tie \in TieOrders :
        run' = [op |-> "pie", year |-> selected_year,
                slices |-> plot_world_population_share(stab, selected_year, tie)]
    /\ UNCHANGED <<files, http, cache, popCache, appCache, reads, firstRes, calls, stab>>

NextPie == PlotWorldPopulationShare

SpecPie == InitPie /\ [][NextPie]_vars

RECURSIVE SumShares(_, _)
SumShares(t, S) ==
    IF S = {} THEN 0
    ELSE LET c == CHOOSE x \in S : TRUE IN t[c].share + SumShares(t, S \ {c})

RECURSIVE SumPops(_, _)
SumPops(t, S) ==
    IF S = {} THEN 0
    ELSE LET c == CHOOSE x \in S : TRUE IN t[c].pop + SumPops(t, S \ {c})

SlicesNamed(slices, n) == {i \in DOMAIN slices : slices[i].name = n}

\* C19: in the world-population pie chart every country of the selected year
\* whose share is at least the threshold has its own slice, all countries
\* below the threshold appear only inside a single 'Other Countries' slice
\* whose share and population are the sums of theirs, and the sum of all
\* slice shares equals the sum of the shares of all countries of that year.
PieSlicesPartitionTheYear ==
    run.op = "pie" =>
        LET with_share == {c \in PieCountries : stab[c].year = run.year /\ stab[c].share # NoShare}
            large == {c \in with_share : stab[c].share >= Threshold}
            small == with_share \ large
        IN
        /\ \A c \in large : \E i \in DOMAIN run.slices :
               /\ SlicesNamed(run.slices, c) = {i}
               /\ run.slices[i].share = stab[c].share
        /\ \A c \in small : SlicesNamed(run.slices, c) = {}
        /\ small = {} => SlicesNamed(run.slices, OtherCountries) = {}
        /\ small # {} => \E i \in DOMAIN run.slices :
               /\ SlicesNamed(run.slices, OtherCountries) = {i}
               /\ run.slices[i].share = SumShares(stab, small)
               /\ run.slices[i].pop = SumPops(stab, small)
        /\ SumSeq([i \in DOMAIN run.slices |-> run.slices[i].share]) = SumShares(stab, with_share)

\* a country exactly at the threshold with its own slice and two smaller
\* countries summed into the 'Other Countries' slice
PieSlicesWitness ==
    /\ run.op = "pie"
    /\ run.year = 1
    /\ Len(run.slices) = 2
    /\ run.slices[1].share = Threshold
    /\ run.slices[2] = [name |-> OtherCountries, share |-> 10, pop |-> 10]

====
